---- MODULE Spec2Model ----
(***************************************************************************)
(* Model of the Silence Fade System (silence_fade_test.py): the control    *)
(* loop of main(), its fade arithmetic on IEEE-754 binary64 values, and    *)
(* the push flow of send_eye_glow_to_vts / _vts_send_eye_glow_async.       *)
(***************************************************************************)
EXTENDS Integers, Sequences, FiniteSets, TLC

(***************************************************************************)
(* Python floats are IEEE-754 binary64.  Every number the loop handles is  *)
(* a sum or difference of the literals of lines 13-23, all of which are    *)
(* whole multiples of 2^-60 (0.007 has the finest grid), and stays below   *)
(* 2^12 in magnitude.  A float is therefore modelled exactly as a sign and *)
(* a magnitude counted in units of 2^-60, the magnitude held in three      *)
(* limbs of 24 bits, least significant first.  An arithmetic result is the *)
(* exact result rounded to 53 significant bits, ties to even.              *)
(***************************************************************************)
LimbBase == 2^24

MantissaBits == 53

\* bounds of the model
MaxSilentTicks == 250
MaxFailCount == 2

RECURSIVE BitLen(_)
BitLen(n) == IF n = 0 THEN 0 ELSE 1 + BitLen(n \div 2)

BigBitLen(a) ==
    IF a[3] > 0 THEN 48 + BitLen(a[3])
    ELSE IF a[2] > 0 THEN 24 + BitLen(a[2])
    ELSE BitLen(a[1])

BigAdd(a, b) ==
    LET s1 == a[1] + b[1]
        c1 == s1 \div LimbBase
        s2 == a[2] + b[2] + c1
        c2 == s2 \div LimbBase
    IN  <<s1 % LimbBase, s2 % LimbBase, a[3] + b[3] + c2>>

\* a - b for a >= b
BigSub(a, b) ==
    LET d1 == a[1] - b[1]
        w1 == IF d1 < 0 THEN 1 ELSE 0
        d2 == a[2] - b[2] - w1
        w2 == IF d2 < 0 THEN 1 ELSE 0
    IN  <<d1 + w1 * LimbBase, d2 + w2 * LimbBase, a[3] - b[3] - w2>>

BigLess(a, b) ==
    \/ a[3] < b[3]
    \/ a[3] = b[3] /\ a[2] < b[2]
    \/ a[3] = b[3] /\ a[2] = b[2] /\ a[1] < b[1]

BigZero == <<0, 0, 0>>

\* round a magnitude to 53 significant bits, ties to even
RoundToDouble(a) ==
    LET len == BigBitLen(a)
    IN  IF len <= MantissaBits THEN a
        ELSE LET k    == len - MantissaBits
                 p    == 2^k
                 r    == a[1] % p
                 down == <<a[1] - r, a[2], a[3]>>
                 odd  == (a[1] \div p) % 2 = 1
                 up   == BigAdd(down, <<p, 0, 0>>)
             IN  IF r > p \div 2 \/ (r = p \div 2 /\ odd) THEN up ELSE down

Float(neg, mag) == [neg |-> neg /\ mag # BigZero, mag |-> mag]

\* x + y
FAdd(x, y) ==
    IF x.neg = y.neg
    THEN Float(x.neg, RoundToDouble(BigAdd(x.mag, y.mag)))
    ELSE IF BigLess(x.mag, y.mag)
         THEN Float(y.neg, RoundToDouble(BigSub(y.mag, x.mag)))
         ELSE Float(x.neg, RoundToDouble(BigSub(x.mag, y.mag)))

\* x - y
FSub(x, y) == FAdd(x, Float(~y.neg, y.mag))

\* x < y
FLt(x, y) ==
    IF x.neg /\ ~y.neg THEN TRUE
    ELSE IF ~x.neg /\ y.neg THEN FALSE
    ELSE IF x.neg THEN BigLess(y.mag, x.mag)
    ELSE BigLess(x.mag, y.mag)

\* x >= y, x > y
FGe(x, y) == ~FLt(x, y)
FGt(x, y) == FLt(y, x)

\* x <= y
FLe(x, y) == ~FLt(y, x)

\* |x|
FAbs(x) == Float(FALSE, x.mag)

\* the smaller and the larger of two floats
FMin(x, y) == IF FLt(y, x) THEN y ELSE x
FMax(x, y) == IF FLt(x, y) THEN y ELSE x

\* the exact product of a magnitude and an integer 0 <= n < 2^9, computed on
\* 12-bit digits
BigTimes(a, n) ==
    LET h  == 4096
        t1 == (a[1] % h) * n
        t2 == (a[1] \div h) * n + t1 \div h
        t3 == (a[2] % h) * n + t2 \div h
        t4 == (a[2] \div h) * n + t3 \div h
        t5 == (a[3] % h) * n + t4 \div h
        t6 == (a[3] \div h) * n + t5 \div h
    IN  <<(t1 % h) + (t2 % h) * h, (t3 % h) + (t4 % h) * h, (t5 % h) + t6 * h>>

\* x * n for an integer n >= 0
FTimes(x, n) == Float(x.neg, RoundToDouble(BigTimes(x.mag, n)))

(***************************************************************************)
(* Configuration parameters, lines 13-23, as the doubles the literals      *)
(* denote.                                                                 *)
(***************************************************************************)
\* 0.1 = 0x1.999999999999ap-4
CHECK_INTERVAL == Float(FALSE, <<10066336, 10066329, 409>>)
\* -55.0
SILENCE_THRESHOLD_DB == Float(TRUE, <<0, 0, 225280>>)
\* 10.0
FADE_START_TIME == Float(FALSE, <<0, 0, 40960>>)
\* 0.007 = 0x1.cac083126e979p-8
FADE_SPEED_OUT == Float(FALSE, <<2550137, 11274289, 28>>)
\* 0.6 = 0x1.3333333333333p-1
FADE_IN_SPEED == Float(FALSE, <<10066304, 10066329, 2457>>)
\* 0.0
MIN_EYE_GLOW == Float(FALSE, BigZero)
\* 1.0
MAX_EYE_GLOW == Float(FALSE, <<0, 0, 4096>>)
\* MAX_EYE_GLOW * 0.9: the product with 1.0 is exact, 0.9 = 0x1.ccccccccccccdp-1
EDGE_RESET_LEVEL == Float(FALSE, <<6710912, 6710886, 3686>>)
\* the initial 0.0 of silence_duration
ZERO == Float(FALSE, BigZero)


(***************************************************************************)
(* State.  silence_duration, eye_glow, was_silent and is_silent are the    *)
(* locals of main(); vts_error_logged is the module-level latch;           *)
(* token_configured says whether VTS_AUTH_TOKEN differs from the           *)
(* placeholder.  ws_open, ws_sent and ws_recv describe the connection of   *)
(* the push in progress: whether it is open, the requests sent on it and   *)
(* the responses read from it.  pc is the position of the single thread.   *)
(* History variables: reports counts the error reports printed,            *)
(* push_outcome is how the push of the current tick resolved,              *)
(* failed_pushes counts failed pushes (saturating at MaxFailCount),        *)
(* ok_after_fail records a successful push after a failed one, silent_run  *)
(* counts the consecutive silent ticks, and pre is the fade state at the   *)
(* start of the latest tick.  open_conns counts the connections of the     *)
(* push flow that are open, and remote_answers says whether the remote     *)
(* side will ever answer the AuthenticationRequest in flight.  token_flow  *)
(* is the state of get_token() of vts_get_token.py, the separate script    *)
(* that pc runs through when it starts at "token_start": its connection,   *)
(* the requests sent, the responses read and what it printed.              *)
(***************************************************************************)
VARIABLES pc, silence_duration, eye_glow, was_silent, is_silent,
          vts_error_logged, token_configured, ws_open, ws_sent, ws_recv,
          reports, push_outcome, failed_pushes, ok_after_fail, silent_run, pre,
          open_conns, remote_answers, token_flow

fade_vars == <<silence_duration, eye_glow, was_silent, is_silent, silent_run, pre>>
push_vars == <<vts_error_logged, ws_open, ws_sent, ws_recv, reports,
               push_outcome, failed_pushes, ok_after_fail, open_conns,
               remote_answers>>
vars == <<pc, fade_vars, push_vars, token_configured, token_flow>>

\* loudness values the sampler can return: -60.0, -55.0 (the threshold), -50.0
Volumes == { Float(TRUE, <<0, 0, 245760>>),
             Float(TRUE, <<0, 0, 225280>>),
             Float(TRUE, <<0, 0, 204800>>) }

\* line 172
IsSilent(volume_db) == FLt(volume_db, SILENCE_THRESHOLD_DB)

\* mutant: the lower clamp of lines 180-181 is missing
ClampLowMissing(g) == g

\* lines 180-181
ClampLow(g) == IF FLt(g, MIN_EYE_GLOW) THEN MIN_EYE_GLOW ELSE g

\* mutant: the upper clamp of lines 192-193 is missing
ClampHighMissing(g) == g

\* lines 192-193
ClampHigh(g) == IF FGt(g, MAX_EYE_GLOW) THEN MAX_EYE_GLOW ELSE g

\* mutant: the fade starts without the grace period
FadeStartedAtOnce(sd) == FGe(sd, CHECK_INTERVAL)

\* line 178
FadeStarted(sd) == FGe(sd, FADE_START_TIME)

\* mutant: the fade-out step has the wrong sign
FadeOutWrongSign(g) == ClampHigh(FAdd(g, FADE_SPEED_OUT))

\* mutant: the fade-out never happens
FadeOutFrozen(g) == g

\* lines 179-181
FadeOut(g) == ClampLow(FSub(g, FADE_SPEED_OUT))

\* mutant: no edge-triggered reset
EdgeResetMissing(was, g) == g

\* mutant: the reset ignores how far the glow has faded
EdgeResetAlways(was, g) == IF was THEN MIN_EYE_GLOW ELSE g

\* lines 186-187
EdgeReset(was, g) ==
    IF was /\ FLt(g, EDGE_RESET_LEVEL) THEN MIN_EYE_GLOW ELSE g

\* mutant: the fade-in uses the fade-out rate
FadeInSlow(g) == ClampHigh(FAdd(g, FADE_SPEED_OUT))

\* lines 191-193
FadeIn(g) == ClampHigh(FAdd(g, FADE_IN_SPEED))

\* mutant: the elapsed silence is the tick count times the interval
AccumulateByCount(sd) == FTimes(CHECK_INTERVAL, silent_run + 1)

\* mutant: the elapsed silence advances by two intervals per tick
AccumulateTwice(sd) == FAdd(FAdd(sd, CHECK_INTERVAL), CHECK_INTERVAL)

\* line 176
Accumulate(sd) == FAdd(sd, CHECK_INTERVAL)

\* lines 176-181: the silent branch
SilentTick(sd, g) ==
    LET sd2 == Accumulate(sd)
    IN  [silence_duration |-> sd2,
         eye_glow |-> IF FadeStarted(sd2) THEN FadeOut(g) ELSE g]

\* lines 186-193: the non-silent branch
ActiveTick(was, g) ==
    [silence_duration |-> ZERO, eye_glow |-> FadeIn(EdgeReset(was, g))]

\* lines 175-193
FadeUpdate(silent, sd, g, was) ==
    IF silent THEN SilentTick(sd, g) ELSE ActiveTick(was, g)

\* lines 158-160, 45
Init ==
    /\ \/ pc = "sample" /\ token_configured \in BOOLEAN
       \/ pc = "token_start" /\ token_configured = FALSE
    /\ silence_duration = ZERO
    /\ eye_glow = MAX_EYE_GLOW
    /\ was_silent = FALSE
    /\ is_silent = FALSE
    /\ vts_error_logged = FALSE
    /\ ws_open = FALSE
    /\ ws_sent = <<>>
    /\ ws_recv = <<>>
    /\ reports = 0
    /\ push_outcome = "none"
    /\ failed_pushes = 0
    /\ ok_after_fail = FALSE
    /\ silent_run = 0
    /\ pre = [silence_duration |-> ZERO, eye_glow |-> MAX_EYE_GLOW,
              was_silent |-> FALSE]
    /\ open_conns = 0
    /\ remote_answers = TRUE
    /\ token_flow = [open |-> FALSE, sent |-> <<>>, recv |-> <<>>,
                     outcome |-> "none"]

\* lines 169-193: measure, classify, update the fade state
Tick ==
    /\ pc = "sample"
    /\ \E volume_db \in Volumes :
         LET silent == IsSilent(volume_db)
             new    == FadeUpdate(silent, silence_duration, eye_glow, was_silent)
         IN  /\ silent => silent_run < MaxSilentTicks
             /\ is_silent' = silent
             /\ silence_duration' = new.silence_duration
             /\ eye_glow' = new.eye_glow
             /\ silent_run' = IF silent THEN silent_run + 1 ELSE 0
             /\ pre' = [silence_duration |-> silence_duration,
                        eye_glow |-> eye_glow, was_silent |-> was_silent]
    /\ pc' = "push"
    /\ UNCHANGED <<was_silent, push_vars, token_configured, token_flow>>


(***************************************************************************)
(* The push flow.  A response to the AuthenticationRequest is one of:      *)
(* data.authenticated true, data.authenticated false, data without the     *)
(* field, no data object, a frame that is not JSON, or the connection      *)
(* closing before a frame arrives.                                         *)
(***************************************************************************)
AuthResponses == {"authenticated_true", "authenticated_false", "authenticated_absent",
                  "no_data", "not_json", "closed"}

\* line 101: recv returns a frame unless the connection closed
Received(resp) == resp # "closed"

\* line 102: json.loads raises on a frame that is not JSON
Parses(resp) == resp # "not_json"

\* mutant: an absent field counts as authenticated
AuthenticatedByDefault(resp) ==
    resp \in {"authenticated_true", "authenticated_absent", "no_data"}

\* line 105: .get("data", {}).get("authenticated", False)
Authenticated(resp) == resp = "authenticated_true"

\* lines 89-99
AuthRequest == [messageType |-> "AuthenticationRequest"]

\* mutant: the request carries the glow the tick started with
ParamRequestStale(g) ==
    [messageType |-> "ParameterValueRequest", value |-> pre.eye_glow]

\* lines 109-122
ParamRequest(g) == [messageType |-> "ParameterValueRequest", value |-> g]

\* mutant: the latch is never set
LatchNeverSet(logged) == logged

\* line 149
LatchAfterError(logged) == TRUE

\* lines 146-148: the report is printed only while the latch is clear
ReportsAfterError(logged, n) == IF logged THEN n ELSE n + 1

\* mutant: the error is raised again and leaves main()
PcAfterErrorRaised == "crashed"

\* lines 144-150: except Exception absorbs the error and the call returns
PcAfterError == "sleep"

Min(a, b) == IF a < b THEN a ELSE b

\* mutant: the connection is closed only when the block ends normally
ClosedOnlyOnSuccess(raised) == ~raised

\* mutant: the connection is never closed
ClosedNever(raised) == FALSE

\* line 87: leaving the async with block closes the connection, whether the
\* block ends normally or by an exception
ClosedOnExit(raised) == TRUE

\* mutant: the token check is missing
SkipsPushNever(configured) == FALSE

\* lines 139-140: the push returns at once while the token is the placeholder
SkipsPush(configured) == ~configured

\* mutant: recv gives up although no frame arrives
RecvReturnsAnyway(answers) == TRUE

\* line 101: recv returns only when the remote side answers or the
\* connection ends; no timeout is set, here or at line 143
RecvReturns(answers) == answers

\* mutant: was_silent keeps its old value
SavedFlagStale(current, previous) == previous

\* line 211
SavedFlag(current, previous) == current

\* lines 144-150, with the connection closed by the exit of line 87's block
PushFails ==
    /\ ws_open' = (ws_open /\ ~ClosedOnExit(TRUE))
    /\ open_conns' = IF ws_open /\ ClosedOnExit(TRUE) THEN open_conns - 1
                     ELSE open_conns
    /\ remote_answers' = TRUE
    /\ reports' = ReportsAfterError(vts_error_logged, reports)
    /\ vts_error_logged' = LatchAfterError(vts_error_logged)
    /\ push_outcome' = "failed"
    /\ failed_pushes' = Min(failed_pushes + 1, MaxFailCount)
    /\ pc' = PcAfterError
    /\ UNCHANGED <<ok_after_fail, fade_vars, token_configured, token_flow>>

\* lines 139-140: no token configured, the push does nothing
PushSkipped ==
    /\ pc = "push"
    /\ SkipsPush(token_configured)
    /\ push_outcome' = "skipped"
    /\ pc' = "sleep"
    /\ UNCHANGED <<vts_error_logged, ws_open, ws_sent, ws_recv, reports,
                   failed_pushes, ok_after_fail, open_conns, remote_answers,
                   fade_vars, token_configured, token_flow>>

\* lines 143, 87: a fresh connection is opened
Connect ==
    /\ pc = "push"
    /\ ~SkipsPush(token_configured)
    /\ ws_open' = TRUE
    /\ open_conns' = open_conns + 1
    /\ ws_sent' = <<>>
    /\ ws_recv' = <<>>
    /\ pc' = "connected"
    /\ UNCHANGED <<vts_error_logged, reports, push_outcome, failed_pushes,
                   ok_after_fail, remote_answers, fade_vars, token_configured,
                   token_flow>>

\* line 87 raises: connection refused
ConnectRefused ==
    /\ pc = "push"
    /\ ~SkipsPush(token_configured)
    /\ PushFails
    /\ UNCHANGED <<ws_sent, ws_recv>>

\* line 100: the request is sent; the remote side will answer it or not
SendAuth ==
    /\ pc = "connected"
    /\ ws_sent' = Append(ws_sent, AuthRequest)
    /\ remote_answers' \in BOOLEAN
    /\ pc' = "auth_sent"
    /\ UNCHANGED <<vts_error_logged, ws_open, ws_recv, reports, push_outcome,
                   failed_pushes, ok_after_fail, open_conns, fade_vars,
                   token_configured, token_flow>>

\* lines 101-106: one response is read and checked
RecvAuth ==
    /\ pc = "auth_sent"
    /\ RecvReturns(remote_answers)
    /\ \E resp \in AuthResponses :
         /\ ws_recv' = IF Received(resp) THEN Append(ws_recv, resp) ELSE ws_recv
         /\ IF Received(resp) /\ Parses(resp) /\ Authenticated(resp)
            THEN /\ pc' = "authed"
                 /\ remote_answers' = TRUE
                 /\ UNCHANGED <<vts_error_logged, ws_open, reports, push_outcome,
                                failed_pushes, ok_after_fail, open_conns,
                                fade_vars, token_configured, token_flow>>
            ELSE PushFails
    /\ UNCHANGED ws_sent

\* lines 109-123 and the exit of line 87's block: the value is sent, the
\* connection closed, and the call returns
SendParam ==
    /\ pc = "authed"
    /\ ws_sent' = Append(ws_sent, ParamRequest(eye_glow))
    /\ ws_open' = (ws_open /\ ~ClosedOnExit(FALSE))
    /\ open_conns' = IF ws_open /\ ClosedOnExit(FALSE) THEN open_conns - 1
                     ELSE open_conns
    /\ push_outcome' = "sent"
    /\ ok_after_fail' = (ok_after_fail \/ failed_pushes > 0)
    /\ pc' = "sleep"
    /\ UNCHANGED <<vts_error_logged, ws_recv, reports, failed_pushes,
                   remote_answers, fade_vars, token_configured, token_flow>>

\* lines 100, 123: a send raises because the connection dropped
SendRaises ==
    /\ pc \in {"connected", "authed"}
    /\ PushFails
    /\ UNCHANGED <<ws_sent, ws_recv>>

\* lines 208-211: the residual sleep, then was_silent takes this tick's flag
SleepSave ==
    /\ pc = "sleep"
    /\ was_silent' = SavedFlag(is_silent, was_silent)
    /\ ws_sent' = <<>>
    /\ ws_recv' = <<>>
    /\ push_outcome' = "none"
    /\ pc' = "sample"
    /\ UNCHANGED <<silence_duration, eye_glow, is_silent, silent_run, pre,
                   vts_error_logged, ws_open, reports, failed_pushes,
                   ok_after_fail, open_conns, remote_answers,
                   token_configured, token_flow>>

\* positions of the loop of main() at which it can be interrupted
LoopPcs == {"sample", "push", "connected", "auth_sent", "authed", "sleep"}

\* lines 213-214: KeyboardInterrupt ends the loop; the exception leaving
\* line 87's block closes a connection that is open
Interrupt ==
    /\ pc \in LoopPcs
    /\ pc' = "exited"
    /\ ws_open' = FALSE
    /\ open_conns' = 0
    /\ UNCHANGED <<vts_error_logged, ws_sent, ws_recv, reports, push_outcome,
                   failed_pushes, ok_after_fail, remote_answers, fade_vars,
                   token_configured, token_flow>>

\* line 169: the audio device fails; the exception leaves main()
DeviceError ==
    /\ pc = "sample"
    /\ pc' = "crashed"
    /\ UNCHANGED <<fade_vars, push_vars, token_configured, token_flow>>

(***************************************************************************)
(* The token-acquisition flow, get_token() of vts_get_token.py.  The       *)
(* response is one of: data.authenticationToken a non-empty string, the    *)
(* empty string, data without the field, no data object, a frame that is   *)
(* not JSON, or the connection closing before a frame arrives.             *)
(***************************************************************************)
TokenResponses == {"token_present", "token_empty", "token_absent", "no_data",
                   "not_json", "closed"}

\* vts_get_token.py lines 14-25
TokenRequest == [messageType |-> "AuthenticationTokenRequest"]

\* mutant: an empty token counts as a token
TokenGrantedIfField(resp) == resp \in {"token_present", "token_empty"}

\* vts_get_token.py lines 35-36: .get("data", {}).get("authenticationToken"),
\* tested for truth
TokenGranted(resp) == resp = "token_present"

\* vts_get_token.py line 12 raises, or line 27 or 31 raises on a dropped
\* connection, or line 32 on a frame that is not JSON: nothing catches it
TokenRaises(recv) ==
    /\ token_flow' = [token_flow EXCEPT !.open = FALSE, !.recv = recv,
                                        !.outcome = "raised"]
    /\ pc' = "token_crashed"
    /\ UNCHANGED <<fade_vars, push_vars, token_configured>>

\* vts_get_token.py line 12
TokenConnect ==
    /\ pc = "token_start"
    /\ \/ /\ token_flow' = [token_flow EXCEPT !.open = TRUE]
          /\ pc' = "token_connected"
          /\ UNCHANGED <<fade_vars, push_vars, token_configured>>
       \/ TokenRaises(token_flow.recv)

\* vts_get_token.py lines 27-28
TokenSend ==
    /\ pc = "token_connected"
    /\ \/ /\ token_flow' = [token_flow EXCEPT
                              !.sent = Append(token_flow.sent, TokenRequest)]
          /\ pc' = "token_sent"
          /\ UNCHANGED <<fade_vars, push_vars, token_configured>>
       \/ TokenRaises(token_flow.recv)

\* vts_get_token.py lines 31-41 and the exit of line 12's block
TokenRecv ==
    /\ pc = "token_sent"
    /\ \E resp \in TokenResponses :
         IF ~Received(resp) THEN TokenRaises(token_flow.recv)
         ELSE IF ~Parses(resp) THEN TokenRaises(Append(token_flow.recv, resp))
         ELSE /\ token_flow' = [token_flow EXCEPT
                                  !.open = FALSE,
                                  !.recv = Append(token_flow.recv, resp),
                                  !.outcome = IF TokenGranted(resp)
                                              THEN "reported" ELSE "denied"]
              /\ pc' = "token_done"
              /\ UNCHANGED <<fade_vars, push_vars, token_configured>>

Next ==
    \/ Tick
    \/ PushSkipped
    \/ Connect
    \/ ConnectRefused
    \/ SendAuth
    \/ RecvAuth
    \/ SendParam
    \/ SendRaises
    \/ SleepSave
    \/ Interrupt
    \/ DeviceError
    \/ TokenConnect
    \/ TokenSend
    \/ TokenRecv

Spec == Init /\ [][Next]_vars


(***************************************************************************)
(* Properties.                                                             *)
(***************************************************************************)
InRange(g) == FGe(g, MIN_EYE_GLOW) /\ FLe(g, MAX_EYE_GLOW)

PushPcs == {"push", "connected", "auth_sent", "authed"}

\* the step resolves the push of the current tick as a failure
PushFailure == push_outcome # "failed" /\ push_outcome' = "failed"

\* the latest tick was a non-silent one
AfterActiveTick == ~is_silent /\ silent_run = 0

\* C1: in every reachable state MIN_EYE_GLOW <= eye_glow <= MAX_EYE_GLOW, and
\* every value carried by a ParameterValueRequest lies in that interval.
C1_IntensityBounded ==
    /\ InRange(eye_glow)
    /\ \A i \in DOMAIN ws_sent :
         ws_sent[i].messageType = "ParameterValueRequest" => InRange(ws_sent[i].value)

\* C1 witness: the fade-out reached the lower clamp and the clamped value
\* was pushed.
C1_Witness ==
    /\ pc = "sleep"
    /\ push_outcome = "sent"
    /\ eye_glow = MIN_EYE_GLOW
    /\ FGt(pre.eye_glow, MIN_EYE_GLOW)
    /\ ws_sent[2].value = MIN_EYE_GLOW

\* C2: a ParameterValueRequest is the second request of its connection, after
\* the AuthenticationRequest and after a response with authenticated = true;
\* after any other response nothing more is sent and the session is aborted.
C2_ParamOnlyAfterAuth ==
    /\ Len(ws_sent) <= 2
    /\ Len(ws_recv) <= 1
    /\ ws_sent # <<>> => ws_sent[1].messageType = "AuthenticationRequest"
    /\ ws_recv # <<>> => ws_sent # <<>>
    /\ Len(ws_sent) = 2 =>
         /\ ws_sent[2].messageType = "ParameterValueRequest"
         /\ ws_recv = <<"authenticated_true">>
    /\ (ws_recv # <<>> /\ ws_recv[1] # "authenticated_true") =>
         /\ Len(ws_sent) = 1
         /\ ~ws_open
         /\ push_outcome = "failed"

\* C2 witness: a push that sent its value after a positive acknowledgment.
C2_Witness ==
    /\ push_outcome = "sent"
    /\ Len(ws_sent) = 2
    /\ ws_recv = <<"authenticated_true">>

\* C3: every step of a push leaves the fade state alone and ends inside the
\* push or at the sleep of line 208 (or at the interrupt), a failed push ends
\* at that sleep, only the audio device can make the loop crash, and the
\* bookkeeping after the push does not depend on how the push resolved.
C3_PushErrorsAbsorbed ==
    [][ /\ (pc \in PushPcs /\ pc' # "exited") =>
              /\ pc' \in PushPcs \cup {"sleep"}
              /\ UNCHANGED <<silence_duration, eye_glow, was_silent, is_silent>>
        /\ PushFailure => pc' = "sleep"
        /\ pc' = "crashed" => pc = "sample"
        /\ (pc = "sleep" /\ pc' = "sample") =>
              /\ was_silent' = is_silent
              /\ UNCHANGED <<silence_duration, eye_glow>> ]_vars

\* C3 witness: the loop is taking a tick after two failed pushes.
C3_Witness ==
    /\ pc = "push"
    /\ failed_pushes = 2
    /\ silent_run = 2

\* C4: the latch is never cleared, a failing push reports exactly when the
\* latch is clear and sets it, no other step reports, and there is never more
\* than one report.
C4_ReportedOnce ==
    [][ /\ vts_error_logged => vts_error_logged'
        /\ PushFailure =>
              /\ reports' = (IF vts_error_logged THEN reports ELSE reports + 1)
              /\ vts_error_logged'
        /\ ~PushFailure => reports' = reports
        /\ reports' <= 1 ]_vars

\* C4 witness: a push fails after an earlier failure and a successful push
\* in between, with one report made.
C4_Witness ==
    /\ push_outcome = "failed"
    /\ failed_pushes = 2
    /\ ok_after_fail
    /\ reports = 1

\* C5: after a silent tick that leaves silence_duration below FADE_START_TIME,
\* eye_glow is what it was before the tick.
C5_GracePeriod ==
    (is_silent /\ FLt(silence_duration, FADE_START_TIME)) =>
        eye_glow = pre.eye_glow

\* C5 witness: the last tick of the grace period.
C5_Witness ==
    /\ is_silent
    /\ silent_run = 100
    /\ FLt(silence_duration, FADE_START_TIME)
    /\ eye_glow = pre.eye_glow

\* C6: after a silent tick past the delay, eye_glow is
\* max(MIN_EYE_GLOW, previous - FADE_SPEED_OUT), not above the previous value
\* and not below MIN_EYE_GLOW.
C6_FadeOutMonotone ==
    (is_silent /\ FGe(silence_duration, FADE_START_TIME)) =>
        /\ eye_glow = FMax(MIN_EYE_GLOW, FSub(pre.eye_glow, FADE_SPEED_OUT))
        /\ FLe(eye_glow, pre.eye_glow)
        /\ FGe(eye_glow, MIN_EYE_GLOW)

\* C6 witness: a tick well past the delay that lowered the glow.
C6_Witness ==
    /\ is_silent
    /\ silent_run >= 110
    /\ FLt(eye_glow, pre.eye_glow)

\* 2^-40, about 1e-12
DRIFT_TOLERANCE == Float(FALSE, <<1048576, 0, 0>>)

\* C7 as stated: silence_duration is 0 after a non-silent tick, the interval
\* times the number of consecutive silent ticks after a silent one, and
\* never negative.
C7_ElapsedIsProduct ==
    /\ ~is_silent => silence_duration = ZERO
    /\ is_silent => silence_duration = FTimes(CHECK_INTERVAL, silent_run)
    /\ FGe(silence_duration, ZERO)

\* C7 amended: silence_duration is 0 after a non-silent tick; after a silent
\* tick it is the previous value plus the interval, rounded to a double,
\* starting from 0 on the first tick of the run, which stays within 2^-40 of
\* the interval times the number of consecutive silent ticks; it is never
\* negative.
C7_ElapsedIsRoundedSum ==
    /\ ~is_silent => silence_duration = ZERO
    /\ is_silent =>
         /\ silence_duration = FAdd(pre.silence_duration, CHECK_INTERVAL)
         /\ silent_run = 1 => pre.silence_duration = ZERO
         /\ FLe(FAbs(FSub(silence_duration, FTimes(CHECK_INTERVAL, silent_run))),
                DRIFT_TOLERANCE)
    /\ FGe(silence_duration, ZERO)

\* C7 witness: a silent tick whose accumulated sum differs from the product.
C7_Witness ==
    /\ is_silent
    /\ silent_run = 100
    /\ silence_duration # FTimes(CHECK_INTERVAL, silent_run)
    /\ silence_duration = FAdd(pre.silence_duration, CHECK_INTERVAL)

\* C8: a non-silent tick that follows a silent one with eye_glow below
\* 0.9 * MAX_EYE_GLOW ends with eye_glow = min(MAX_EYE_GLOW, MIN_EYE_GLOW + FADE_IN_SPEED).
C8_EdgeReset ==
    (AfterActiveTick /\ pre.was_silent /\ FLt(pre.eye_glow, EDGE_RESET_LEVEL)) =>
        eye_glow = FMin(MAX_EYE_GLOW, FAdd(MIN_EYE_GLOW, FADE_IN_SPEED))

\* C8 witness: the reset lowered a glow that stood above the result.
C8_Witness ==
    /\ AfterActiveTick
    /\ pre.was_silent
    /\ FLt(pre.eye_glow, EDGE_RESET_LEVEL)
    /\ FGt(pre.eye_glow, eye_glow)

\* C9: a non-silent tick that follows a silent one with eye_glow at or above
\* 0.9 * MAX_EYE_GLOW, or that follows a non-silent one, ends with
\* eye_glow = min(MAX_EYE_GLOW, previous + FADE_IN_SPEED).
C9_NoResetWhenBright ==
    (AfterActiveTick /\ ~(pre.was_silent /\ FLt(pre.eye_glow, EDGE_RESET_LEVEL))) =>
        eye_glow = FMin(MAX_EYE_GLOW, FAdd(pre.eye_glow, FADE_IN_SPEED))

\* C9 witness: a slightly faded glow, still at or above the level, climbs
\* straight back.
C9_Witness ==
    /\ AfterActiveTick
    /\ pre.was_silent
    /\ FGe(pre.eye_glow, EDGE_RESET_LEVEL)
    /\ FLt(pre.eye_glow, MAX_EYE_GLOW)
    /\ eye_glow = MAX_EYE_GLOW

\* C10: each of the first 100 consecutive silent ticks leaves eye_glow
\* unchanged, with silence_duration still below FADE_START_TIME, and the 101st
\* lowers it by FADE_SPEED_OUT.
C10_FadeBeginsAtTick101 ==
    is_silent =>
        /\ silent_run \in 1..100 =>
             /\ eye_glow = pre.eye_glow
             /\ FLt(silence_duration, FADE_START_TIME)
        /\ silent_run = 101 =>
             /\ eye_glow = FSub(pre.eye_glow, FADE_SPEED_OUT)
             /\ FLt(eye_glow, pre.eye_glow)

\* C10 witness: the 101st consecutive silent tick has lowered the glow.
C10_Witness ==
    /\ is_silent
    /\ silent_run = 101
    /\ FLt(eye_glow, pre.eye_glow)


\* C11: the token flow sends one AuthenticationTokenRequest and nothing else,
\* reads at most one response, and when it has read a response that parses
\* it ends normally: reported when the token is a non-empty string, denied
\* when the token is empty or absent.
C11_TokenFlow ==
    /\ Len(token_flow.sent) <= 1
    /\ Len(token_flow.recv) <= 1
    /\ \A i \in DOMAIN token_flow.sent : token_flow.sent[i] = TokenRequest
    /\ pc \in {"token_start", "token_connected", "token_sent", "token_done",
               "token_crashed"} => ws_sent = <<>>
    /\ token_flow.recv # <<>> => token_flow.sent = <<TokenRequest>>
    /\ pc = "token_done" =>
         /\ Len(token_flow.recv) = 1
         /\ ~token_flow.open
    /\ (token_flow.recv # <<>> /\ token_flow.recv[1] = "token_present") =>
         /\ pc = "token_done"
         /\ token_flow.outcome = "reported"
    /\ (token_flow.recv # <<>>
          /\ token_flow.recv[1] \in {"token_empty", "token_absent", "no_data"}) =>
         /\ pc = "token_done"
         /\ token_flow.outcome = "denied"

\* C11 witness: the flow ended normally, denied, on an empty token.
C11_Witness ==
    /\ pc = "token_done"
    /\ token_flow.recv = <<"token_empty">>
    /\ token_flow.outcome = "denied"
    /\ token_flow.sent = <<TokenRequest>>

\* C12: never more than one connection of the push flow is open, none is
\* open outside a push, and the sampling phase is entered only from the sleep
\* that follows a push that has resolved as sent, failed or skipped.
C12_OnePushAtATime ==
    [][ /\ open_conns' <= 1
        /\ pc' \in {"sample", "sleep", "push"} => open_conns' = 0
        /\ pc' = "sample" =>
              /\ pc = "sleep"
              /\ push_outcome \in {"sent", "failed", "skipped"}
              /\ open_conns = 0 ]_vars

\* C12 witness: a new sampling phase begins after a failed push.
C12_Witness ==
    /\ pc = "sample"
    /\ failed_pushes = 1
    /\ vts_error_logged
    /\ open_conns = 0
    /\ silent_run = 1

MessageCount(log, type) == Cardinality({i \in DOMAIN log : log[i].messageType = type})

\* C13: a push connects from a state without an open connection and starts
\* with an empty log; when the push has returned, however it ended, its
\* connection is closed; no log holds two AuthenticationRequests or two
\* ParameterValueRequests.
C13_FreshConnectionPerPush ==
    [][ /\ (pc = "push" /\ pc' = "connected") =>
              /\ ~ws_open
              /\ ws_open'
              /\ ws_sent' = <<>>
              /\ ws_recv' = <<>>
        /\ pc' \in {"sleep", "sample", "exited"} => ~ws_open'
        /\ MessageCount(ws_sent', "AuthenticationRequest") <= 1
        /\ MessageCount(ws_sent', "ParameterValueRequest") <= 1 ]_vars

\* C13 witness: a second push has failed on a rejected authentication and
\* its connection is closed.
C13_Witness ==
    /\ pc = "sleep"
    /\ push_outcome = "failed"
    /\ ws_recv = <<"authenticated_false">>
    /\ failed_pushes = 2
    /\ ~ws_open

\* C14: while the token is the placeholder no connection is opened, nothing
\* is sent, the latch stays clear and no error is reported.
C14_NoTokenNoPush ==
    ~token_configured =>
        /\ ~ws_open
        /\ open_conns = 0
        /\ ws_sent = <<>>
        /\ ws_recv = <<>>
        /\ ~vts_error_logged
        /\ reports = 0
        /\ push_outcome \in {"none", "skipped"}
        /\ pc \notin {"connected", "auth_sent", "authed"}

\* C14 witness: the third tick's push was skipped.
C14_Witness ==
    /\ ~token_configured
    /\ pc = "sleep"
    /\ push_outcome = "skipped"
    /\ silent_run = 3

\* C15: when a tick begins, was_silent is the classification of the tick
\* before (false before the first); through the fade update and the push it
\* keeps the value the edge check read, and it changes only in the step from
\* the sleep to the next sampling phase.
C15_WasSilentIsPreviousTick ==
    [][ /\ pc' = "sample" => was_silent' = is_silent'
        /\ pc' \in {"push", "connected", "auth_sent", "authed", "sleep"} =>
              was_silent' = pre'.was_silent
        /\ was_silent' # was_silent => (pc = "sleep" /\ pc' = "sample") ]_vars

\* C15 witness: a non-silent tick after a silent one has been pushed and
\* was_silent still holds the silent flag.
C15_Witness ==
    /\ pc = "sleep"
    /\ ~is_silent
    /\ was_silent
    /\ pre.was_silent

\* C16: after two consecutive non-silent ticks, and after every further
\* non-silent tick, eye_glow is MAX_EYE_GLOW.
C16_FadeInSaturates ==
    (pc \in LoopPcs \ {"sample"} /\ ~is_silent /\ ~was_silent) =>
        eye_glow = MAX_EYE_GLOW

\* C16 witness: the second non-silent tick has raised the glow from
\* MIN_EYE_GLOW + FADE_IN_SPEED to MAX_EYE_GLOW.
C16_Witness ==
    /\ pc = "push"
    /\ ~is_silent
    /\ ~was_silent
    /\ pre.eye_glow = FADE_IN_SPEED
    /\ eye_glow = MAX_EYE_GLOW

\* the locals of main() and what the push has reported and sent
Progress == <<silence_duration, eye_glow, was_silent, is_silent, silent_run,
              reports, vts_error_logged, push_outcome, ws_sent, ws_recv>>

\* C17: while the remote side does not answer the AuthenticationRequest, the
\* only step that changes anything is the interrupt: the push does not
\* resolve, no tick runs and nothing is reported.
C17_HungPushStallsLoop ==
    [][ (pc = "auth_sent" /\ ~remote_answers) =>
            /\ pc' \in {"auth_sent", "exited"}
            /\ ~remote_answers'
            /\ UNCHANGED Progress ]_vars

\* C17 witness: the push of a tick waits for an answer that will not come.
C17_Witness ==
    /\ pc = "auth_sent"
    /\ ~remote_answers
    /\ ws_open
    /\ ws_recv = <<>>
    /\ silent_run = 2

\* C18: a tick is followed by exactly one push, the push by the sleep and the
\* sleep by the next tick, and a ParameterValueRequest carries the eye_glow
\* that the fade update of the same tick computed.
C18_OnePushPerTickCurrentValue ==
    [][ /\ pc' = "push" => pc = "sample"
        /\ (pc = "sample" /\ pc' \in LoopPcs) => pc' = "push"
        /\ pc = "push" => pc' \in {"connected", "sleep", "exited"}
        /\ pc' = "sleep" => pc \in PushPcs
        /\ pc = "sleep" => pc' \in {"sample", "exited"}
        /\ \A i \in DOMAIN ws_sent' :
              ws_sent'[i].messageType = "ParameterValueRequest" =>
                 /\ ws_sent'[i].value = eye_glow'
                 /\ ws_sent'[i].value =
                      FadeUpdate(is_silent', pre'.silence_duration, pre'.eye_glow,
                                 pre'.was_silent).eye_glow ]_vars

\* C18 witness: the value sent is the one the tick computed, not the one it
\* started with.
C18_Witness ==
    /\ pc = "sleep"
    /\ push_outcome = "sent"
    /\ ws_sent[2].value = eye_glow
    /\ eye_glow # pre.eye_glow

\* C19: after a non-silent tick eye_glow is MAX_EYE_GLOW or
\* min(MAX_EYE_GLOW, MIN_EYE_GLOW + FADE_IN_SPEED); after a non-silent tick
\* that ends a silence shorter than the delay it is not below the glow held
\* through that silence.
C19_TwoValuesAfterActiveTick ==
    AfterActiveTick =>
        /\ eye_glow \in {MAX_EYE_GLOW,
                         FMin(MAX_EYE_GLOW, FAdd(MIN_EYE_GLOW, FADE_IN_SPEED))}
        /\ (pre.was_silent /\ FLt(pre.silence_duration, FADE_START_TIME)) =>
              FGe(eye_glow, pre.eye_glow)

\* C19 witness: a short silence that began at MIN_EYE_GLOW + FADE_IN_SPEED
\* ends with the same glow.
C19_Witness ==
    /\ AfterActiveTick
    /\ pre.was_silent
    /\ FLt(pre.silence_duration, FADE_START_TIME)
    /\ FGt(pre.silence_duration, ZERO)
    /\ pre.eye_glow = FADE_IN_SPEED
    /\ eye_glow = FADE_IN_SPEED

\* C20: after 243 consecutive silent ticks (100 of grace and 143 of fade-out
\* from MAX_EYE_GLOW) eye_glow is MIN_EYE_GLOW, and a silent tick that starts
\* at MIN_EYE_GLOW ends at MIN_EYE_GLOW.
C20_SilenceEndsDark ==
    is_silent =>
        /\ silent_run >= 243 => eye_glow = MIN_EYE_GLOW
        /\ pre.eye_glow = MIN_EYE_GLOW => eye_glow = MIN_EYE_GLOW

\* C20 witness: the glow, dark already, stays dark over a further silent tick.
C20_Witness ==
    /\ is_silent
    /\ silent_run = 245
    /\ pre.eye_glow = MIN_EYE_GLOW
    /\ eye_glow = MIN_EYE_GLOW

====
